---- MODULE Spec2Model ----
(***************************************************************************)
(* Model of api/common.go: the facade operations Config.Request and        *)
(* Config.UploadRequest, the envelope builder (EncryptCheck,               *)
(* EncryptBizContent, makeSignBefore, CalcSign) and the two transports     *)
(* (sendRequest, sendUploadRequest).                                       *)
(*                                                                         *)
(* Strings and byte slices are sequences of symbols.  A symbol is a record *)
(* [c, w]: c is the character, w the stack of transformations the          *)
(* character is wrapped in (outermost first): base64, AES-ECB under a key, *)
(* RSA under a key, an RSA signature.  A symbol with an empty stack is a   *)
(* plaintext character.                                                    *)
(***************************************************************************)
EXTENDS Integers, Sequences, FiniteSets, TLC

\* ------------------------------------------------------------------ bounds
MaxCalls == 2      \* facade calls made one after the other
MaxDraw == 1       \* the random source yields draws d, d+s, d+2s, ... with d, s in 0..MaxDraw
KeyLen == 16       \* getRandomString(16)
StatusOK == 200    \* http.StatusOK

\* ----------------------------------------------------------------- strings
Sym(ch) == [c |-> ch, w |-> <<>>]
Str(chars) == [i \in 1..Len(chars) |-> Sym(chars[i])]
Empty == <<>>

Layer(alg, key) == [alg |-> alg, key |-> key]
Wrap(s, layer) == [i \in 1..Len(s) |-> [c |-> s[i].c, w |-> <<layer>> \o s[i].w]]
Unwrap(s) == [i \in 1..Len(s) |-> [c |-> s[i].c, w |-> Tail(s[i].w)]]
Top(sym, alg) == Len(sym.w) > 0 /\ sym.w[1].alg = alg
IsPlain(sym) == sym.w = <<>>

\* base64.StdEncoding.EncodeToString
EncodeToString(b) == Wrap(b, Layer("b64", Empty))

\* Number of leading symbols of s that are base64 characters.
RECURSIVE LeadingB64(_)
LeadingB64(s) ==
    IF s = <<>> \/ ~Top(Head(s), "b64") THEN 0 ELSE 1 + LeadingB64(Tail(s))

\* base64.StdEncoding.DecodeString: the bytes decoded before the first
\* character that is not base64, and an error when there is such a character.
DecodeString(s) ==
    LET n == LeadingB64(s)
    IN  [out |-> Unwrap(SubSeq(s, 1, n)), err |-> n < Len(s)]

\* ------------------------------------------------------------------ crypto
\* A PEM key is usable when it parses; the model's keys are "PEM..." or junk.
IsPEM(k) == Len(k) > 0 /\ k[1] = Sym("PEM")
AESKeySizes == {16, 24, 32}

\* easycrypto.RSAEncrypt(pubKey, data) -> (bytes, error)
RSAEncrypt(pubKey, data) ==
    IF IsPEM(pubKey)
    THEN [out |-> Wrap(data, Layer("rsa", pubKey)), err |-> FALSE]
    ELSE [out |-> Empty, err |-> TRUE]

\* easycrypto.AESEncryptECB(plaintext, key) -> (string, error)
AESEncryptECB(plain, key) ==
    IF Len(key) \in AESKeySizes
    THEN [out |-> Wrap(plain, Layer("aes", key)), err |-> FALSE]
    ELSE [out |-> Empty, err |-> TRUE]

\* easycrypto.AESDecryptECB(ciphertext, key) -> (bytes, error): fails on a
\* text that is not a ciphertext under this key.
AESDecryptECB(cipher, key) ==
    IF /\ Len(key) \in AESKeySizes
       /\ Len(cipher) > 0
       /\ \A i \in 1..Len(cipher) : Top(cipher[i], "aes") /\ cipher[i].w[1].key = key
    THEN [out |-> Unwrap(cipher), err |-> FALSE]
    ELSE [out |-> Empty, err |-> TRUE]

\* easycrypto.RSASign(key, data) -> (base64 string, error)
RSASign(key, data) ==
    IF IsPEM(key)
    THEN [out |-> EncodeToString(Wrap(data, Layer("sig", key))), err |-> FALSE]
    ELSE [out |-> Empty, err |-> TRUE]

\* -------------------------------------------------------------------- JSON
\* A business document is JSON when it is a brace-delimited plaintext.
IsJSONObject(b) ==
    /\ Len(b) >= 2
    /\ b[1] = Sym("{")
    /\ b[Len(b)] = Sym("}")

NilMap == [nil |-> TRUE, v |-> Empty]

\* converter.UnmarshalJSON(buffer, &data) into an xmap.M
UnmarshalJSON(b) ==
    IF IsJSONObject(b)
    THEN [data |-> [nil |-> FALSE, v |-> SubSeq(b, 2, Len(b) - 1)], err |-> FALSE]
    ELSE [data |-> NilMap, err |-> TRUE]

\* ResponsePayload, with the fields the facade reads
ZeroResponse == [Code |-> "", Msg |-> "", SubCode |-> "", BusinessData |-> Empty]
NilResponse == [nil |-> TRUE, v |-> ZeroResponse]

\* The JSON text of a ResponsePayload, field by field.
ResponseJSON(r) ==
    <<Sym("{"), Sym(r.Code), Sym(r.Msg), Sym(r.SubCode)>> \o r.BusinessData \o <<Sym("}")>>

\* json.Unmarshal(body, &responsePayload)
UnmarshalResponse(b) ==
    IF /\ Len(b) >= 5
       /\ b[1] = Sym("{")
       /\ b[Len(b)] = Sym("}")
       /\ \A i \in 2..4 : IsPlain(b[i])
    THEN [v |-> [Code |-> b[2].c, Msg |-> b[3].c, SubCode |-> b[4].c,
                 BusinessData |-> SubSeq(b, 5, Len(b) - 1)],
          err |-> FALSE]
    ELSE [v |-> ZeroResponse, err |-> TRUE]

\* ------------------------------------------------------------- the envelope
successCode == "SUCCESS"
ALLCHAR == <<"0", "1", "a", "b", "A", "B">>

\* getRandomString(length): one rand.Int draw per character
getRandomString(length, draws) ==
    [i \in 1..length |-> Sym(ALLCHAR[draws[i] + 1])]

\* The outcomes of the random source the model enumerates.
RandomDraws(length) ==
    { [i \in 1..length |-> (d + (i - 1) * s) % Len(ALLCHAR)] :
        d \in 0..MaxDraw, s \in 0..MaxDraw }

ZeroPayload ==
    [TimeStamp |-> Empty, Method |-> Empty, Charset |-> Empty, Sign |-> Empty,
     Check |-> Empty, BizContent |-> Empty, ReqID |-> Empty, CertID |-> Empty,
     Version |-> Empty]

\* NewRequestPayload(method, version); now is the clock reading
NewRequestPayload(method, version, now) ==
    [ZeroPayload EXCEPT !.ReqID = <<Sym("id"), Sym(ToString(now))>>,
                        !.TimeStamp = <<Sym("ts"), Sym(ToString(now))>>,
                        !.Method = method,
                        !.Charset = Str(<<"utf-8">>),
                        !.Version = version]

\* EncryptCheck with the RSA step left out: check is the encoded key itself.
EncryptCheckNoRSA(r, pubKey, key) ==
    [r |-> [r EXCEPT !.Check = EncodeToString(key)], err |-> FALSE]

\* r.EncryptCheck(pubKey, aesKey): the payload afterwards and the error
EncryptCheck(r, pubKey, key) ==
    LET check == RSAEncrypt(pubKey, key)
    IN  IF check.err
        THEN [r |-> r, err |-> TRUE]
        ELSE [r |-> [r EXCEPT !.Check = EncodeToString(check.out)], err |-> FALSE]

\* r.EncryptBizContent(keyByte)
EncryptBizContent(r, keyByte) ==
    LET e == AESEncryptECB(r.BizContent, keyByte)
    IN  [r |-> [r EXCEPT !.BizContent = e.out], err |-> e.err]

\* The protocol's order of the signed fields.
SignOrder ==
    <<"timeStamp", "method", "charset", "reqId", "certId", "version", "check", "bizContent">>

Reserved == {"{", "}", "=", "&", "+", "/", " "}

\* url.QueryEscape of one value
RECURSIVE QueryEscape(_)
QueryEscape(v) ==
    IF v = <<>> THEN <<>>
    ELSE (IF IsPlain(Head(v)) /\ Head(v).c \in Reserved
          THEN <<Sym("%"), Head(v)>> ELSE <<Head(v)>>) \o QueryEscape(Tail(v))

\* utils.MapToUrlValues(m): key=value pairs joined by '&'
RECURSIVE JoinPairs(_, _)
JoinPairs(m, keys) ==
    IF keys = <<>> THEN <<>>
    ELSE LET k == Head(keys)
             rest == JoinPairs(m, Tail(keys))
         IN  IF k \notin DOMAIN m THEN rest
             ELSE <<Sym(k), Sym("=")>> \o QueryEscape(m[k])
                    \o (IF rest = <<>> THEN <<>> ELSE <<Sym("&")>> \o rest)

MapToUrlValues(m) == JoinPairs(m, SignOrder)

\* makeSignBefore with bizContent left out of the map.
makeSignBeforeNoBiz(r) ==
    MapToUrlValues([timeStamp |-> r.TimeStamp, method |-> r.Method,
                    charset |-> r.Charset, reqId |-> r.ReqID, certId |-> r.CertID,
                    version |-> r.Version, check |-> r.Check])

\* r.makeSignBefore()
makeSignBefore(r) ==
    MapToUrlValues([timeStamp |-> r.TimeStamp, method |-> r.Method,
                    charset |-> r.Charset, reqId |-> r.ReqID, certId |-> r.CertID,
                    version |-> r.Version, check |-> r.Check,
                    bizContent |-> r.BizContent])

\* r.CalcSign(key)
CalcSign(r, key) ==
    LET s == RSASign(key, makeSignBefore(r))
    IN  [r |-> [r EXCEPT !.Sign = s.out], err |-> s.err]

\* r.EncodeMap(), and the object json.Marshal(payload) writes: the nine fields
\* under their wire names
EncodeMap(r) ==
    [timeStamp |-> r.TimeStamp, method |-> r.Method, charset |-> r.Charset,
     sign |-> r.Sign, check |-> r.Check, bizContent |-> r.BizContent,
     reqId |-> r.ReqID, certId |-> r.CertID, version |-> r.Version]

\* c.Decode(aesKey, businessData)
Decode(aseKey, businessData) ==
    LET d == AESDecryptECB(businessData, aseKey)
    IN  IF d.err THEN [data |-> NilMap, err |-> TRUE]
        ELSE UnmarshalJSON(d.out)

\* ------------------------------------------------------------------- state
VARIABLES
    config,       \* the Config the facade is called on
    calls,        \* facade calls started so far
    op,           \* the facade operation running or last run: "none", "Request", "UploadRequest"
    pc,           \* position of the running call; "idle" before the first, "done" after a return
    url,          \* argument url
    bizContent,   \* argument bizContent
    payload,      \* local payload (*RequestPayload)
    aesKey,       \* local aesKey
    file,         \* the upload's file handle: "none", "open", "closed"
    fileKind,     \* what filePath names: "missing", "dir", "file"
    httpResp,     \* what client.Do returned
    body,         \* local body of the transport
    response,     \* local response of the facade (*ResponsePayload)
    resp,         \* named result resp
    data,         \* named result data
    err,          \* named result err
    sent,         \* the requests put on the wire by the running call, in order
    decodeCalls,  \* invocations of AESDecryptECB by the running call
    failed        \* the envelope-building steps of the running call that failed

vars == <<config, calls, op, pc, url, bizContent, payload, aesKey, file, fileKind, httpResp, body,
          response, resp, data, err, sent, decodeCalls, failed>>

NoErr == [nil |-> TRUE, text |-> Empty]
Err(text) == [nil |-> FALSE, text |-> text]
NoHTTP == [connErr |-> FALSE, status |-> 0, readErr |-> FALSE, body |-> Empty]

\* -------------------------------------------------------------- the inputs
GoodPEM == Str(<<"PEM", "key">>)
BadPEM == Str(<<"junk">>)
Configs ==
    [CertID : {Str(<<"cert">>)}, PrivateKey : {GoodPEM, BadPEM}, PublicKey : {GoodPEM, BadPEM}]

GoodURL == "https://api.example/gateway"
BadURL == "https://api.example/%zz"
URLs == {GoodURL, BadURL}
\* http.NewRequest fails on a URL that does not parse
ValidURL(u) == u = GoodURL

Methods == {Str(<<"trade.query">>)}
Versions == {Str(<<"1.0">>)}
BizJSON == Str(<<"{", "order", "}">>)
BizContents == {BizJSON}
FileKinds == {"missing", "dir", "file"}

\* What a server may put in businessData for a request made under key.
OtherKey(key) == [key EXCEPT ![1] = Sym("Z")]
BusinessDatas(key) ==
    { AESEncryptECB(BizJSON, key).out,
      AESEncryptECB(Str(<<"not json">>), key).out,
      AESEncryptECB(BizJSON, OtherKey(key)).out,
      BizJSON,
      Empty }

CodeMsgs == { <<successCode, "ok">>, <<"FAIL", "denied">> }
SubCodes == { successCode, "SUB_FAIL" }

Responses(key) ==
    { [Code |-> cm[1], Msg |-> cm[2], SubCode |-> sc, BusinessData |-> bd] :
        cm \in CodeMsgs, sc \in SubCodes, bd \in BusinessDatas(key) }

\* The bodies a server may answer with: a response as JSON, the same
\* base64-encoded, and bodies that are neither.
Bodies(key) ==
    { ResponseJSON(r) : r \in Responses(key) }
    \cup { EncodeToString(ResponseJSON(r)) : r \in Responses(key) }
    \cup { Empty,
           Str(<<"<html>">>),
           EncodeToString(Str(<<"<html>">>)),
           EncodeToString(Str(<<"{">>)) \o Str(<<"}">>) }

HTTPResponses(key) ==
    { [connErr |-> TRUE, status |-> 0, readErr |-> FALSE, body |-> Empty],
      [connErr |-> FALSE, status |-> 500, readErr |-> FALSE, body |-> Empty],
      [connErr |-> FALSE, status |-> StatusOK, readErr |-> TRUE, body |-> Empty] }
    \cup { [connErr |-> FALSE, status |-> StatusOK, readErr |-> FALSE, body |-> b] :
             b \in Bodies(key) }

Init ==
    /\ config \in Configs
    /\ calls = 0
    /\ op = "none"
    /\ pc = "idle"
    /\ url = GoodURL
    /\ bizContent = Empty
    /\ payload = ZeroPayload
    /\ aesKey = Empty
    /\ file = "none"
    /\ fileKind = "file"
    /\ httpResp = NoHTTP
    /\ body = Empty
    /\ response = NilResponse
    /\ resp = NilResponse
    /\ data = NilMap
    /\ err = NoErr
    /\ sent = <<>>
    /\ decodeCalls = 0
    /\ failed = {}

\* A call starts in a fresh frame: zero results and locals.
Frame(o, u, biz, r, key, f, kind) ==
    /\ calls' = calls + 1
    /\ op' = o
    /\ url' = u
    /\ bizContent' = biz
    /\ payload' = r
    /\ aesKey' = key
    /\ file' = f
    /\ fileKind' = kind
    /\ httpResp' = NoHTTP
    /\ body' = Empty
    /\ response' = NilResponse
    /\ resp' = NilResponse
    /\ data' = NilMap
    /\ sent' = <<>>
    /\ decodeCalls' = 0
    /\ failed' = {}

\* --------------------------------------------------------- Config.Request
\* lines 157-159: the payload, the certificate id, the key
Request_Begin ==
    /\ pc \in {"idle", "done"}
    /\ calls < MaxCalls
    /\ \E u \in URLs, method \in Methods, version \in Versions,
          biz \in BizContents, draws \in RandomDraws(KeyLen) :
         Frame("Request", u, biz,
               [NewRequestPayload(method, version, calls + 1) EXCEPT !.CertID = config.CertID],
               getRandomString(KeyLen, draws), "none", "file")
    /\ err' = NoErr
    /\ pc' = "R_EncryptCheck"
    /\ UNCHANGED config

\* line 161: the error EncryptCheck returns is dropped
Request_EncryptCheck ==
    /\ pc = "R_EncryptCheck"
    /\ LET e == EncryptCheck(payload, config.PublicKey, aesKey)
       IN  /\ payload' = e.r
           /\ failed' = IF e.err THEN failed \cup {"EncryptCheck"} ELSE failed
    /\ pc' = "R_EncryptBizContent"
    /\ UNCHANGED <<config, calls, op, url, bizContent, aesKey, file, fileKind, httpResp, body,
                   response, resp, data, err, sent, decodeCalls>>

\* lines 163-164: the error EncryptBizContent returns is dropped
Request_EncryptBizContent ==
    /\ pc = "R_EncryptBizContent"
    /\ LET e == EncryptBizContent([payload EXCEPT !.BizContent = bizContent], aesKey)
       IN  /\ payload' = e.r
           /\ failed' = IF e.err THEN failed \cup {"EncryptBizContent"} ELSE failed
    /\ pc' = "R_CalcSign"
    /\ UNCHANGED <<config, calls, op, url, bizContent, aesKey, file, fileKind, httpResp, body,
                   response, resp, data, err, sent, decodeCalls>>

\* lines 166-170
Request_CalcSign ==
    /\ pc = "R_CalcSign"
    /\ LET e == CalcSign(payload, config.PrivateKey)
       IN  /\ payload' = e.r
           /\ err' = IF e.err THEN Err(Str(<<"rsa sign">>)) ELSE NoErr
           /\ failed' = IF e.err THEN failed \cup {"CalcSign"} ELSE failed
           /\ pc' = IF e.err THEN "done" ELSE "s_NewRequest"
    /\ UNCHANGED <<config, calls, op, url, bizContent, aesKey, file, fileKind, httpResp, body,
                   response, resp, data, sent, decodeCalls>>

\* ------------------------------------------------------------ sendRequest
\* A return of the transport: line 172 assigns response and err.
TransportReturn(r, e, next) ==
    /\ response' = r
    /\ err' = e
    /\ pc' = next

\* lines 233-248: json.Marshal of nine strings cannot fail; http.NewRequest can
sendRequest_NewRequest ==
    /\ pc = "s_NewRequest"
    /\ IF ValidURL(url)
       THEN pc' = "s_Do" /\ UNCHANGED <<response, err>>
       ELSE TransportReturn(NilResponse, Err(Str(<<"new request">>)), "R_sendErr")
    /\ UNCHANGED <<config, calls, op, url, bizContent, payload, aesKey, file, fileKind, httpResp, body,
                   resp, data, sent, decodeCalls, failed>>

\* sendRequest's client.Do with one retry after a connection error.
sendRequest_DoRetry ==
    /\ pc = "s_Do"
    /\ sent' = Append(sent, [kind |-> "json", url |-> url, fields |-> EncodeMap(payload)])
    /\ \E h \in HTTPResponses(aesKey) :
         /\ httpResp' = h
         /\ IF h.connErr
            THEN IF Len(sent) = 0
                 THEN pc' = "s_Do" /\ UNCHANGED <<response, err>>
                 ELSE TransportReturn(NilResponse, Err(Str(<<"do">>)), "R_sendErr")
            ELSE pc' = "s_Status" /\ UNCHANGED <<response, err>>
    /\ UNCHANGED <<config, calls, op, url, bizContent, payload, aesKey, file, fileKind, body,
                   resp, data, decodeCalls, failed>>

\* lines 251-256: the one client.Do
sendRequest_Do ==
    /\ pc = "s_Do"
    /\ sent' = Append(sent, [kind |-> "json", url |-> url, fields |-> EncodeMap(payload)])
    /\ \E h \in HTTPResponses(aesKey) :
         /\ httpResp' = h
         /\ IF h.connErr
            THEN TransportReturn(NilResponse, Err(Str(<<"do">>)), "R_sendErr")
            ELSE pc' = "s_Status" /\ UNCHANGED <<response, err>>
    /\ UNCHANGED <<config, calls, op, url, bizContent, payload, aesKey, file, fileKind, body,
                   resp, data, decodeCalls, failed>>

\* lines 258-260
sendRequest_Status ==
    /\ pc = "s_Status"
    /\ IF httpResp.status # StatusOK
       THEN TransportReturn(NilResponse, Err(Str(<<"status">>)), "R_sendErr")
       ELSE pc' = "s_ReadAll" /\ UNCHANGED <<response, err>>
    /\ UNCHANGED <<config, calls, op, url, bizContent, payload, aesKey, file, fileKind, httpResp, body,
                   resp, data, sent, decodeCalls, failed>>

\* lines 262-265
sendRequest_ReadAll ==
    /\ pc = "s_ReadAll"
    /\ IF httpResp.readErr
       THEN /\ TransportReturn(NilResponse, Err(Str(<<"read">>)), "R_sendErr")
            /\ UNCHANGED body
       ELSE /\ body' = httpResp.body
            /\ pc' = "s_Base64"
            /\ UNCHANGED <<response, err>>
    /\ UNCHANGED <<config, calls, op, url, bizContent, payload, aesKey, file, fileKind, httpResp,
                   resp, data, sent, decodeCalls, failed>>

\* lines 271-274: the decoded bytes replace body only when decoding succeeded
sendRequest_Base64 ==
    /\ pc = "s_Base64"
    /\ LET k == DecodeString(body)
       IN  body' = IF ~k.err THEN k.out ELSE body
    /\ pc' = "s_Unmarshal"
    /\ UNCHANGED <<config, calls, op, url, bizContent, payload, aesKey, file, fileKind, httpResp,
                   response, resp, data, err, sent, decodeCalls, failed>>

\* lines 279-285
sendRequest_Unmarshal ==
    /\ pc = "s_Unmarshal"
    /\ LET u == UnmarshalResponse(body)
       IN  IF u.err
           THEN TransportReturn(NilResponse, Err(Str(<<"json">>)), "R_sendErr")
           ELSE TransportReturn([nil |-> FALSE, v |-> u.v], NoErr, "R_sendErr")
    /\ UNCHANGED <<config, calls, op, url, bizContent, payload, aesKey, file, fileKind, httpResp, body,
                   resp, data, sent, decodeCalls, failed>>

\* ------------------------------------------------- Config.Request, continued
\* lines 173-175
Request_SendErr ==
    /\ pc = "R_sendErr"
    /\ pc' = IF ~err.nil THEN "done" ELSE "R_Code"
    /\ UNCHANGED <<config, calls, op, url, bizContent, payload, aesKey, file, fileKind, httpResp, body,
                   response, resp, data, err, sent, decodeCalls, failed>>

\* fmt.Errorf("code:%s msg:%s", response.Code, response.Msg)
CodeError(r) == Err(<<Sym("code:"), Sym(r.Code), Sym(" msg:"), Sym(r.Msg)>>)

\* The code check of Request with the return after the error left out.
Request_CodeNoReturn ==
    /\ pc = "R_Code"
    /\ IF response.v.Code # successCode
       THEN err' = CodeError(response.v)
       ELSE UNCHANGED err
    /\ pc' = "R_Decode"
    /\ UNCHANGED <<config, calls, op, url, bizContent, payload, aesKey, file, fileKind, httpResp,
                   body, response, resp, data, sent, decodeCalls, failed>>

\* lines 179-182
Request_Code ==
    /\ pc = "R_Code"
    /\ IF response.v.Code # successCode
       THEN err' = CodeError(response.v) /\ pc' = "done"
       ELSE UNCHANGED err /\ pc' = "R_Decode"
    /\ UNCHANGED <<config, calls, op, url, bizContent, payload, aesKey, file, fileKind, httpResp, body,
                   response, resp, data, sent, decodeCalls, failed>>

\* lines 183-184: resp is returned as it is, never assigned
Request_Decode ==
    /\ pc = "R_Decode"
    /\ LET d == Decode(aesKey, response.v.BusinessData)
       IN  /\ data' = d.data
           /\ err' = IF d.err THEN Err(Str(<<"decode">>)) ELSE NoErr
    /\ decodeCalls' = decodeCalls + 1
    /\ pc' = "done"
    /\ UNCHANGED <<config, calls, op, url, bizContent, payload, aesKey, file, fileKind, httpResp, body,
                   response, resp, sent, failed>>

\* --------------------------------------------------- Config.UploadRequest
\* os.Open(filePath)
OpenFails(kind) == kind = "missing"
\* io.Copy from the handle: reading a directory fails
ReadFails(kind) == kind = "dir"

\* lines 192-200: open the file, then the payload, the certificate id, the key
UploadRequest_Begin ==
    /\ pc \in {"idle", "done"}
    /\ calls < MaxCalls
    /\ \E u \in URLs, method \in Methods, version \in Versions,
          biz \in BizContents, draws \in RandomDraws(KeyLen), kind \in FileKinds :
         IF OpenFails(kind)
         THEN /\ Frame("UploadRequest", u, biz, ZeroPayload, Empty, "none", kind)
              /\ err' = Err(Str(<<"open">>))
              /\ pc' = "done"
         ELSE /\ Frame("UploadRequest", u, biz,
                       [NewRequestPayload(method, version, calls + 1)
                            EXCEPT !.CertID = config.CertID],
                       getRandomString(KeyLen, draws), "open", kind)
              /\ err' = NoErr
              /\ pc' = "U_EncryptCheck"
    /\ UNCHANGED config

\* A return that closes the file on the success path only.
UploadReturnCloseOnSuccess ==
    /\ pc' = "done"
    /\ file' = IF err'.nil THEN "closed" ELSE file

\* line 197, defer file.Close(): what every return after the open runs
UploadReturn ==
    /\ pc' = "done"
    /\ file' = "closed"

\* line 202: the error EncryptCheck returns is dropped
UploadRequest_EncryptCheck ==
    /\ pc = "U_EncryptCheck"
    /\ LET e == EncryptCheck(payload, config.PublicKey, aesKey)
       IN  /\ payload' = e.r
           /\ failed' = IF e.err THEN failed \cup {"EncryptCheck"} ELSE failed
    /\ pc' = "U_EncryptBizContent"
    /\ UNCHANGED <<config, calls, op, url, bizContent, aesKey, file, fileKind, httpResp, body,
                   response, resp, data, err, sent, decodeCalls>>

\* lines 204-205: the error EncryptBizContent returns is dropped
UploadRequest_EncryptBizContent ==
    /\ pc = "U_EncryptBizContent"
    /\ LET e == EncryptBizContent([payload EXCEPT !.BizContent = bizContent], aesKey)
       IN  /\ payload' = e.r
           /\ failed' = IF e.err THEN failed \cup {"EncryptBizContent"} ELSE failed
    /\ pc' = "U_CalcSign"
    /\ UNCHANGED <<config, calls, op, url, bizContent, aesKey, file, fileKind, httpResp, body,
                   response, resp, data, err, sent, decodeCalls>>

\* lines 207-211
UploadRequest_CalcSign ==
    /\ pc = "U_CalcSign"
    /\ LET e == CalcSign(payload, config.PrivateKey)
       IN  /\ payload' = e.r
           /\ err' = IF e.err THEN Err(Str(<<"rsa sign">>)) ELSE NoErr
           /\ failed' = IF e.err THEN failed \cup {"CalcSign"} ELSE failed
           /\ IF e.err THEN UploadReturn ELSE pc' = "u_Multipart" /\ UNCHANGED file
    /\ UNCHANGED <<config, calls, op, url, bizContent, aesKey, fileKind, httpResp, body,
                   response, resp, data, sent, decodeCalls>>

\* ------------------------------------------------------ sendUploadRequest
\* lines 313-340: the form, with the file part copied from the handle; writes
\* to the buffer cannot fail, the read of the file can
sendUploadRequest_Multipart ==
    /\ pc = "u_Multipart"
    /\ IF ReadFails(fileKind)
       THEN TransportReturn(NilResponse, Err(Str(<<"copy">>)), "U_sendErr")
       ELSE pc' = "u_NewRequest" /\ UNCHANGED <<response, err>>
    /\ UNCHANGED <<config, calls, op, url, bizContent, payload, aesKey, file, fileKind, httpResp,
                   body, resp, data, sent, decodeCalls, failed>>

\* lines 343-348
sendUploadRequest_NewRequest ==
    /\ pc = "u_NewRequest"
    /\ IF ValidURL(url)
       THEN pc' = "u_Do" /\ UNCHANGED <<response, err>>
       ELSE TransportReturn(NilResponse, Err(Str(<<"new request">>)), "U_sendErr")
    /\ UNCHANGED <<config, calls, op, url, bizContent, payload, aesKey, file, fileKind, httpResp,
                   body, resp, data, sent, decodeCalls, failed>>

\* lines 351-356: the one client.Do
sendUploadRequest_Do ==
    /\ pc = "u_Do"
    /\ sent' = Append(sent, [kind |-> "multipart", url |-> url, fields |-> EncodeMap(payload)])
    /\ \E h \in HTTPResponses(aesKey) :
         /\ httpResp' = h
         /\ IF h.connErr
            THEN TransportReturn(NilResponse, Err(Str(<<"do">>)), "U_sendErr")
            ELSE pc' = "u_Status" /\ UNCHANGED <<response, err>>
    /\ UNCHANGED <<config, calls, op, url, bizContent, payload, aesKey, file, fileKind, body,
                   resp, data, decodeCalls, failed>>

\* lines 358-360
sendUploadRequest_Status ==
    /\ pc = "u_Status"
    /\ IF httpResp.status # StatusOK
       THEN TransportReturn(NilResponse, Err(Str(<<"status">>)), "U_sendErr")
       ELSE pc' = "u_ReadAll" /\ UNCHANGED <<response, err>>
    /\ UNCHANGED <<config, calls, op, url, bizContent, payload, aesKey, file, fileKind, httpResp,
                   body, resp, data, sent, decodeCalls, failed>>

\* lines 363-366
sendUploadRequest_ReadAll ==
    /\ pc = "u_ReadAll"
    /\ IF httpResp.readErr
       THEN /\ TransportReturn(NilResponse, Err(Str(<<"read">>)), "U_sendErr")
            /\ UNCHANGED body
       ELSE /\ body' = httpResp.body
            /\ pc' = "u_Base64"
            /\ UNCHANGED <<response, err>>
    /\ UNCHANGED <<config, calls, op, url, bizContent, payload, aesKey, file, fileKind, httpResp,
                   resp, data, sent, decodeCalls, failed>>

\* line 368: body, _ = DecodeString(body): the decoded bytes replace body
\* whether or not decoding succeeded
sendUploadRequest_Base64 ==
    /\ pc = "u_Base64"
    /\ body' = DecodeString(body).out
    /\ pc' = "u_Unmarshal"
    /\ UNCHANGED <<config, calls, op, url, bizContent, payload, aesKey, file, fileKind, httpResp,
                   response, resp, data, err, sent, decodeCalls, failed>>

\* lines 374-380
sendUploadRequest_Unmarshal ==
    /\ pc = "u_Unmarshal"
    /\ LET u == UnmarshalResponse(body)
       IN  IF u.err
           THEN TransportReturn(NilResponse, Err(Str(<<"json">>)), "U_sendErr")
           ELSE TransportReturn([nil |-> FALSE, v |-> u.v], NoErr, "U_sendErr")
    /\ UNCHANGED <<config, calls, op, url, bizContent, payload, aesKey, file, fileKind, httpResp,
                   body, resp, data, sent, decodeCalls, failed>>

\* --------------------------------------------- Config.UploadRequest, continued
\* lines 214-216
UploadRequest_SendErr ==
    /\ pc = "U_sendErr"
    /\ IF ~err.nil THEN UploadReturn ELSE pc' = "U_Code" /\ UNCHANGED file
    /\ UNCHANGED <<config, calls, op, url, bizContent, payload, aesKey, fileKind, httpResp, body,
                   response, resp, data, err, sent, decodeCalls, failed>>

\* lines 220-223
UploadRequest_Code ==
    /\ pc = "U_Code"
    /\ IF response.v.Code # successCode
       THEN err' = CodeError(response.v) /\ UploadReturn
       ELSE UNCHANGED <<err, file>> /\ pc' = "U_SubCode"
    /\ UNCHANGED <<config, calls, op, url, bizContent, payload, aesKey, fileKind, httpResp, body,
                   response, resp, data, sent, decodeCalls, failed>>

\* The subCode check of UploadRequest treating a subCode mismatch as an error.
UploadRequest_SubCodeStrict ==
    /\ pc = "U_SubCode"
    /\ IF response.v.SubCode = successCode
       THEN LET u == UnmarshalJSON(response.v.BusinessData)
            IN  /\ data' = u.data
                /\ err' = IF u.err THEN Err(Str(<<"json">>)) ELSE NoErr
       ELSE /\ err' = CodeError(response.v)
            /\ UNCHANGED data
    /\ UploadReturn
    /\ UNCHANGED <<config, calls, op, url, bizContent, payload, aesKey, fileKind, httpResp, body,
                   response, resp, sent, decodeCalls, failed>>

\* lines 224-227: businessData is parsed as it came, without Decode; resp is
\* returned as it is, never assigned
UploadRequest_SubCode ==
    /\ pc = "U_SubCode"
    /\ IF response.v.SubCode = successCode
       THEN LET u == UnmarshalJSON(response.v.BusinessData)
            IN  /\ data' = u.data
                /\ err' = IF u.err THEN Err(Str(<<"json">>)) ELSE NoErr
       ELSE UNCHANGED <<data, err>>
    /\ UploadReturn
    /\ UNCHANGED <<config, calls, op, url, bizContent, payload, aesKey, fileKind, httpResp, body,
                   response, resp, sent, decodeCalls, failed>>

Next ==
    \/ Request_Begin
    \/ Request_EncryptCheck
    \/ Request_EncryptBizContent
    \/ Request_CalcSign
    \/ sendRequest_NewRequest
    \/ sendRequest_Do
    \/ sendRequest_Status
    \/ sendRequest_ReadAll
    \/ sendRequest_Base64
    \/ sendRequest_Unmarshal
    \/ Request_SendErr
    \/ Request_Code
    \/ Request_Decode
    \/ UploadRequest_Begin
    \/ UploadRequest_EncryptCheck
    \/ UploadRequest_EncryptBizContent
    \/ UploadRequest_CalcSign
    \/ sendUploadRequest_Multipart
    \/ sendUploadRequest_NewRequest
    \/ sendUploadRequest_Do
    \/ sendUploadRequest_Status
    \/ sendUploadRequest_ReadAll
    \/ sendUploadRequest_Base64
    \/ sendUploadRequest_Unmarshal
    \/ UploadRequest_SendErr
    \/ UploadRequest_Code
    \/ UploadRequest_SubCode

Spec == Init /\ [][Next]_vars

\* ================================================================= claims
Returned == pc = "done"
TransportReturned == pc \in {"R_sendErr", "U_sendErr"}
Parsed == ~response.nil
Decryptable(r) == ~Decode(aesKey, r.BusinessData).err

\* C1: a Request whose parsed response has the success code returns that
\* response (not nil) and the business data decrypted with this call's key.
C1_RequestReturnsResponse ==
    (op = "Request" /\ Returned /\ Parsed /\ response.v.Code = successCode)
        => /\ resp = response
           /\ data = Decode(aesKey, response.v.BusinessData).data

\* C2: a failing envelope-building step aborts the call with an error: no
\* later step runs and nothing is sent.
C2_BuildFailureAborts ==
    failed # {} => /\ Returned
                   /\ ~err.nil
                   /\ sent = <<>>

\* C3: a Request whose parsed response has another code than the success
\* code returns an error carrying the code and the msg, returns no data, and
\* never calls the decryption.
C3_NonSuccessCode ==
    (op = "Request" /\ Parsed /\ response.v.Code # successCode)
        => /\ decodeCalls = 0
           /\ data = NilMap
           /\ pc \in {"R_sendErr", "R_Code", "done"}
           /\ Returned =>
                err = [nil |-> FALSE,
                       text |-> <<Sym("code:"), Sym(response.v.Code),
                                  Sym(" msg:"), Sym(response.v.Msg)>>]

C3_Witness ==
    /\ op = "Request" /\ Returned /\ Parsed
    /\ response.v.Code = "FAIL"
    /\ Decryptable(response.v)

\* C4: an UploadRequest whose response has the success code and the success
\* subCode returns the business data AES-decrypted with this call's key and
\* parsed as JSON.
C4_UploadDecrypts ==
    (/\ op = "UploadRequest" /\ Returned /\ Parsed
     /\ response.v.Code = successCode
     /\ response.v.SubCode = successCode)
        => /\ data = Decode(aesKey, response.v.BusinessData).data
           /\ err.nil = ~Decode(aesKey, response.v.BusinessData).err

\* C5: an UploadRequest whose response has the success code and another
\* subCode returns no error and no data; one whose response has another code
\* returns an error carrying code and msg, whatever the subCode.
C5_UploadStatus ==
    (op = "UploadRequest" /\ Returned /\ Parsed)
        => /\ (response.v.Code = successCode /\ response.v.SubCode # successCode)
                => (err = NoErr /\ data = NilMap)
           /\ response.v.Code # successCode
                => /\ data = NilMap
                   /\ err = [nil |-> FALSE,
                             text |-> <<Sym("code:"), Sym(response.v.Code),
                                        Sym(" msg:"), Sym(response.v.Msg)>>]

C5_Witness ==
    /\ op = "UploadRequest" /\ Returned /\ Parsed
    /\ response.v.Code = successCode
    /\ response.v.SubCode # successCode
    /\ response.v.BusinessData = BizJSON

\* C6: in both transports a 200 body that is not valid base64 is parsed from
\* its raw bytes: the decode failure neither replaces the body nor fails the
\* call.
C6_RawBodyFallback ==
    (~httpResp.connErr /\ httpResp.status = StatusOK /\ ~httpResp.readErr
     /\ DecodeString(httpResp.body).err)
        => /\ pc \in {"s_Unmarshal", "u_Unmarshal"} => body = httpResp.body
           /\ TransportReturned =>
                /\ response.nil = UnmarshalResponse(httpResp.body).err
                /\ response.v = UnmarshalResponse(httpResp.body).v

\* C7: the signed string is the eight fields timeStamp, method, charset,
\* reqId, certId, version, check, bizContent as key=value pairs joined by
\* '&' in that order, with the values that go on the wire (check and
\* bizContent after encryption), and without sign.
CanonPair(k, v) == <<Sym(k), Sym("=")>> \o QueryEscape(v)
Canon(f) ==
    CanonPair("timeStamp", f.timeStamp) \o <<Sym("&")>>
    \o CanonPair("method", f.method) \o <<Sym("&")>>
    \o CanonPair("charset", f.charset) \o <<Sym("&")>>
    \o CanonPair("reqId", f.reqId) \o <<Sym("&")>>
    \o CanonPair("certId", f.certId) \o <<Sym("&")>>
    \o CanonPair("version", f.version) \o <<Sym("&")>>
    \o CanonPair("check", f.check) \o <<Sym("&")>>
    \o CanonPair("bizContent", f.bizContent)

C7_SignedString ==
    \A i \in DOMAIN sent :
        LET f == sent[i].fields
        IN  /\ f.sign = EncodeToString(Wrap(Canon(f), Layer("sig", config.PrivateKey)))
            /\ f.bizContent = Wrap(bizContent, Layer("aes", aesKey))
            /\ f.check \in {Empty,
                            EncodeToString(Wrap(aesKey, Layer("rsa", config.PublicKey)))}

C7_Witness ==
    /\ sent # <<>>
    /\ failed = {}
    /\ sent[1].fields.check # Empty
    /\ sent[1].fields.bizContent # Empty

\* C8: the key of a call is generated in the call (16 characters of the
\* alphabet), is not stored in Config, and leaves the process only inside
\* check, RSA-encrypted and base64-encoded: no field of a transmitted
\* envelope holds the plaintext key.
PlainIn(key, field) ==
    /\ Len(key) > 0
    /\ \E i \in 0..(Len(field) - Len(key)) : SubSeq(field, i + 1, i + Len(key)) = key

C8_KeyConfined ==
    /\ config \in Configs
    /\ (aesKey # Empty) =>
         /\ Len(aesKey) = KeyLen
         /\ \A i \in 1..Len(aesKey) :
              IsPlain(aesKey[i]) /\ \E j \in 1..Len(ALLCHAR) : aesKey[i].c = ALLCHAR[j]
         /\ \A k \in DOMAIN config : ~PlainIn(aesKey, config[k])
    /\ \A i \in DOMAIN sent :
         LET f == sent[i].fields
         IN  /\ \A k \in DOMAIN f : ~PlainIn(aesKey, f[k])
             /\ \A k \in DOMAIN f \ {"check", "bizContent", "sign"} :
                  \A j \in 1..Len(f[k]) : IsPlain(f[k][j])
             /\ f.check \in {Empty,
                             EncodeToString(Wrap(aesKey, Layer("rsa", config.PublicKey)))}

C8_Witness ==
    /\ calls = 2
    /\ Len(sent) = 1
    /\ sent[1].fields.check # Empty

\* C9 as stated: every invocation of a transport performs exactly one HTTP
\* POST.
C9_ExactlyOnePost ==
    TransportReturned => Len(sent) = 1

\* C9, amended: an invocation of a transport performs at most one HTTP POST,
\* and exactly one when the request could be built (the URL parses and, for
\* an upload, the file could be read); after a connection error, a non-200
\* status, a body-read error or a JSON error it returns the error without a
\* second POST, and a non-200 response is never parsed.
RequestBuilt == ValidURL(url) /\ (op = "UploadRequest" => ~ReadFails(fileKind))

C9_AtMostOnePost ==
    /\ Len(sent) <= 1
    /\ (TransportReturned /\ RequestBuilt) => Len(sent) = 1
    /\ (TransportReturned /\ ~RequestBuilt) => (sent = <<>> /\ response.nil /\ ~err.nil)
    /\ (TransportReturned /\ Len(sent) = 1
        /\ (httpResp.connErr \/ httpResp.status # StatusOK \/ httpResp.readErr))
         => (response.nil /\ ~err.nil)
    /\ (TransportReturned /\ response.nil) => ~err.nil
    /\ (httpResp.connErr \/ httpResp.status # StatusOK)
         => pc \notin {"s_ReadAll", "s_Base64", "s_Unmarshal",
                       "u_ReadAll", "u_Base64", "u_Unmarshal"}

C9_Witness ==
    /\ TransportReturned
    /\ Len(sent) = 1
    /\ httpResp.connErr
    /\ ~err.nil

\* C10: the file an UploadRequest opened is closed when the call returns,
\* whatever the exit; when the open fails the call returns an error and has
\* built no envelope and sent nothing.
C10_FileClosed ==
    (op = "UploadRequest")
        => /\ (Returned /\ ~OpenFails(fileKind)) => file = "closed"
           /\ (~Returned) => file = "open"
           /\ OpenFails(fileKind)
                => /\ Returned /\ ~err.nil /\ file = "none"
                   /\ sent = <<>> /\ payload = ZeroPayload /\ aesKey = Empty

C10_Witness ==
    /\ op = "UploadRequest" /\ Returned
    /\ file = "closed"
    /\ ~err.nil
    /\ Len(sent) = 1
====
